---- MODULE Spec2Model ----
(***************************************************************************)
(* Model of the CVM358 extraction pipeline (br_stock_trading.py) and of    *)
(* its run-history tracker (reports/report_generator.py).                  *)
(*                                                                         *)
(* A DataFrame is a record [cols, rows]: cols is the set of column names,  *)
(* rows the sequence of rows, each row a function from cols to cells.      *)
(* Every cell is a string.  A cell read from a CSV file is spelled as in   *)
(* the file ("2024-01-01", "2"); a parsed cell is spelled as pandas prints *)
(* it: a Timestamp "2024-01-01 00:00:00", a float64 "2.0".  Missing cells  *)
(* are "NaN" (object and float columns) and "NaT" (datetime columns).      *)
(***************************************************************************)
EXTENDS Integers, Sequences, FiniteSets, TLC

\* ---------------------------------------------------------------- bounds
\* rows of the CSV file of the consolidation specification ConsSpec
MaxRows == 3
\* rows of one CSV file of the pipeline specification Spec
MaxFileRows == 1
\* total_records of the snapshot left by an earlier execution
MaxPrev == 3
\* executions of main() in one behaviour
MaxRuns == 2

\* ---------------------------------------------------------------- cells
NaN == "NaN"
NaT == "NaT"

\* pandas isna()
IsNull(v) == v \in {NaN, NaT}

\* pd.to_datetime(column) on one cell, errors='raise' (the default):
\* a date string becomes a Timestamp, a Timestamp stays, a missing cell is
\* NaT; any other cell raises.
Timestamps == {"2024-01-01 00:00:00", "2024-02-01 00:00:00", "2024-01-15 00:00:00", "2024-02-15 00:00:00"}

\* faulty variant: errors='coerce'
CanParseDateCoerce(v) == TRUE

CanParseDate(v) ==
    v \in Timestamps \cup {"2024-01-01", "2024-02-01", "2024-01-15", "2024-02-15", NaN, NaT}

ToDatetime(v) ==
    CASE v = "2024-01-01" -> "2024-01-01 00:00:00"
      [] v = "2024-02-01" -> "2024-02-01 00:00:00"
      [] v = "2024-01-15" -> "2024-01-15 00:00:00"
      [] v = "2024-02-15" -> "2024-02-15 00:00:00"
      [] v \in Timestamps -> v
      [] OTHER -> NaT

\* faulty variant: only digit strings are taken as numbers
ToNumericDigitsOnly(v) ==
    CASE v = "1" -> "1.0"
      [] v = "2" -> "2.0"
      [] v = "3" -> "3.0"
      [] OTHER -> NaN

\* pd.to_numeric(column, errors='coerce') on one cell: a number becomes a
\* float64, everything else (missing, "N/A", text) becomes NaN.
ToNumeric(v) ==
    CASE v \in {"1", "1.0"} -> "1.0"
      [] v \in {"2", "2.0"} -> "2.0"
      [] v \in {"3", "3.0"} -> "3.0"
      [] OTHER -> NaN

\* numeric value of a float64 Version cell
NumVal(v) ==
    CASE v = "1.0" -> 1
      [] v = "2.0" -> 2
      [] v = "3.0" -> 3
      [] OTHER -> 0

\* Order of the cells of one column, as Python compares them: Timestamps
\* chronologically, strings lexicographically.
Ord(v) ==
    CASE v = "2024-01-01 00:00:00" -> 1
      [] v = "2024-01-15 00:00:00" -> 2
      [] v = "2024-02-01 00:00:00" -> 3
      [] v = "2024-02-15 00:00:00" -> 4
      [] v = "ACME" -> 1
      [] v = "Compra" -> 1
      [] v = "Venda" -> 2
      [] v = "T1" -> 1
      [] v = "T2" -> 2
      [] v = "100" -> 1
      [] v = "200" -> 2
      [] v = "Categoria A" -> 1
      [] v = "Tipo X" -> 1
      [] OTHER -> 0

\* ------------------------------------------------------------ DataFrames
EmptyFrame == [cols |-> {}, rows |-> << >>]

Cell(r, c) == IF c \in DOMAIN r THEN r[c] ELSE NaN

\* df['c'] = value
WithColumn(df, c, value) ==
    [cols |-> df.cols \cup {c},
     rows |-> [i \in 1..Len(df.rows) |->
                 [k \in df.cols \cup {c} |-> IF k = c THEN value ELSE df.rows[i][k]]]]

\* df[c] = pd.to_datetime(df[c])
ToDatetimeColumn(df, c) ==
    [cols |-> df.cols,
     rows |-> [i \in 1..Len(df.rows) |->
                 [k \in df.cols |-> IF k = c THEN ToDatetime(df.rows[i][k]) ELSE df.rows[i][k]]]]

\* df[c] = pd.to_numeric(df[c], errors='coerce')
ToNumericColumn(df, c) ==
    [cols |-> df.cols,
     rows |-> [i \in 1..Len(df.rows) |->
                 [k \in df.cols |-> IF k = c THEN ToNumeric(df.rows[i][k]) ELSE df.rows[i][k]]]]

RECURSIVE ConcatCols(_)
ConcatCols(frames) ==
    IF frames = << >> THEN {} ELSE Head(frames).cols \cup ConcatCols(Tail(frames))

RECURSIVE ConcatRows(_, _)
ConcatRows(frames, cols) ==
    IF frames = << >> THEN << >>
    ELSE [i \in 1..Len(Head(frames).rows) |->
             [k \in cols |-> Cell(Head(frames).rows[i], k)]]
         \o ConcatRows(Tail(frames), cols)

\* pd.concat(frames, ignore_index=True): the rows of the frames in list
\* order over the union of the columns, absent cells filled with NaN.
Concat(frames) ==
    [cols |-> ConcatCols(frames), rows |-> ConcatRows(frames, ConcatCols(frames))]

\* ------------------------------------------------------------- sorting
RECURSIVE LexLess(_, _)
\* tuple comparison of two sort keys of the same length
LexLess(a, b) ==
    IF a = << >> \/ b = << >> THEN FALSE
    ELSE \/ Head(a) < Head(b)
         \/ Head(a) = Head(b) /\ LexLess(Tail(a), Tail(b))

\* Position that a stable sort gives to element i of a sequence whose
\* sort keys are keys[1..n]: elements with a smaller key come first, and
\* elements with an equal key keep their order.
StablePos(keys, i) ==
    1 + Cardinality({j \in 1..Len(keys) :
                        \/ LexLess(keys[j], keys[i])
                        \/ keys[j] = keys[i] /\ j < i})

StableSort(seq, keys) ==
    [p \in 1..Len(seq) |-> seq[CHOOSE i \in 1..Len(seq) : StablePos(keys, i) = p]]

\* rank of a missing cell: na_position='last' puts it after every value,
\* in ascending and in descending columns alike
NaRank == 99

AscRank(v) == IF IsNull(v) THEN NaRank ELSE Ord(v)

\* faulty variant: Version sorted ascending
AscVersionRank(v) == IF IsNull(v) THEN NaRank ELSE NumVal(v)

DescVersionRank(v) == IF IsNull(v) THEN NaRank ELSE 0 - NumVal(v)

\* .sort_values(['Reference_Date', 'Version'], ascending=[True, False]):
\* a sort on several columns is a lexsort, which is stable.
SortByDateVersion(rows) ==
    StableSort(rows, [i \in 1..Len(rows) |->
                        << AscRank(rows[i]["Reference_Date"]),
                           DescVersionRank(rows[i]["Version"]) >>])

\* faulty variant: ascending=False
SortByDateDescending(rows) ==
    StableSort(rows, [i \in 1..Len(rows) |-> << 0 - AscRank(rows[i]["Reference_Date"]) >>])

\* .sort_values('Reference_Date'), taken as a stable sort.  The frame it is
\* applied to comes out of groupby ordered by key, hence by Reference_Date;
\* the default quicksort may still permute rows of equal Reference_Date,
\* by a permutation that depends on the date column alone.
SortByDate(rows) ==
    StableSort(rows, [i \in 1..Len(rows) |-> << AscRank(rows[i]["Reference_Date"]) >>])

\* ------------------------------------------------------------- groupby
KeyOf(r, key_fields) == [k \in 1..Len(key_fields) |-> r[key_fields[k]]]

KeyRank(key) == [k \in 1..Len(key) |-> Ord(key[k])]

\* groupby(dropna=True, the default) leaves out every row with a missing
\* cell in one of the key columns
HasNullKey(r, key_fields) == \E k \in 1..Len(key_fields) : IsNull(r[key_fields[k]])

RECURSIVE SetToSeq(_)
SetToSeq(S) ==
    IF S = {} THEN << >>
    ELSE LET x == CHOOSE y \in S : TRUE IN << x >> \o SetToSeq(S \ {x})

\* groupby(sort=True, the default): the groups in the order of their keys
SortedKeys(rows, key_fields) ==
    LET keys == SetToSeq({KeyOf(rows[i], key_fields) :
                            i \in {j \in 1..Len(rows) : ~HasNullKey(rows[j], key_fields)}})
    IN  StableSort(keys, [i \in 1..Len(keys) |-> KeyRank(keys[i])])

RECURSIVE FirstNonNull(_, _)
\* GroupBy.first() on one column of one group: the first cell that is not
\* missing; a column that is missing in the whole group stays missing.
FirstNonNull(group, c) ==
    IF Len(group) = 1 THEN group[1][c]
    ELSE IF ~IsNull(group[1][c]) THEN group[1][c]
    ELSE FirstNonNull(Tail(group), c)

\* one output row of .groupby(key_fields, as_index=False).first()
GroupFirst(rows, cols, key_fields, key) ==
    LET group == SelectSeq(rows, LAMBDA r : KeyOf(r, key_fields) = key)
    IN  [c \in cols |-> FirstNonNull(group, c)]

\* faulty variant: the rows are passed on without grouping
GroupByNone(rows, cols, key_fields) == rows

GroupByFirst(rows, cols, key_fields) ==
    LET keys == SortedKeys(rows, key_fields)
    IN  [g \in 1..Len(keys) |-> GroupFirst(rows, cols, key_fields, keys[g])]

SeqToSet(s) == {s[i] : i \in 1..Len(s)}

\* ------------------------------------------------------- consolidation
ConsolidatedKeyFields == << "Reference_Date", "Company_CNPJ", "Company_Name", "Movement_Date", "Movement_Type" >>

IndividualKeyFields == << "Reference_Date", "Company_CNPJ", "Company_Name", "CVM_Code", "Category", "Type" >>

\* The body of "if consolidated_data:" / "if individual_data:" of
\* process_trading_data: concat, date and Version conversion, sort, group,
\* first, sort.  The result is [raised, df]; raised is TRUE when a column
\* the code indexes is absent (KeyError) or a date cell cannot be parsed
\* (ValueError).
Consolidate(frames, secondary_date, key_fields) ==
    LET combined == Concat(frames)
        needed == {"Reference_Date", secondary_date, "Version"} \cup SeqToSet(key_fields)
        dates == {combined.rows[i][c] : i \in 1..Len(combined.rows),
                                        c \in {"Reference_Date", secondary_date}}
    IN  IF ~(needed \subseteq combined.cols) THEN [raised |-> TRUE, df |-> EmptyFrame]
        ELSE IF \E v \in dates : ~CanParseDate(v) THEN [raised |-> TRUE, df |-> EmptyFrame]
        ELSE LET d1 == ToDatetimeColumn(combined, "Reference_Date")
                 d2 == ToDatetimeColumn(d1, secondary_date)
                 d3 == ToNumericColumn(d2, "Version")
                 sorted == SortByDateVersion(d3.rows)
                 firsts == GroupByFirst(sorted, d3.cols, key_fields)
             IN  [raised |-> FALSE,
                  df |-> [cols |-> d3.cols, rows |-> SortByDate(firsts)]]

\* --------------------------------------------------------- normalization
ConsolidatedMapping ==
    [CNPJ_Companhia |-> "Company_CNPJ", Nome_Companhia |-> "Company_Name",
     Data_Referencia |-> "Reference_Date", Versao |-> "Version",
     Tipo_Empresa |-> "Company_Type", Empresa |-> "Company",
     Tipo_Cargo |-> "Position_Type", Tipo_Movimentacao |-> "Movement_Type",
     Descricao_Movimentacao |-> "Movement_Description",
     Tipo_Operacao |-> "Operation_Type", Tipo_Ativo |-> "Asset_Type",
     Caracteristica_Valor_Mobiliario |-> "Security_Characteristic",
     Intermediario |-> "Intermediary", Data_Movimentacao |-> "Movement_Date",
     Quantidade |-> "Quantity", Preco_Unitario |-> "Unit_Price",
     Volume |-> "Volume", File_Type |-> "File_Type"]

IndividualMapping ==
    [CNPJ_Companhia |-> "Company_CNPJ", Nome_Companhia |-> "Company_Name",
     Data_Referencia |-> "Reference_Date", Versao |-> "Version",
     Codigo_CVM |-> "CVM_Code", Categoria |-> "Category", Tipo |-> "Type",
     Data_Entrega |-> "Delivery_Date", Tipo_Apresentacao |-> "Presentation_Type",
     Motivo_Reapresentacao |-> "Restatement_Reason",
     Protocolo_Entrega |-> "Delivery_Protocol", Link_Download |-> "Download_Link",
     File_Type |-> "File_Type"]

\* df.rename(columns={k: v for k, v in columns_mapping.items() if k in df.columns}):
\* a column named in the mapping takes its canonical name, any other column
\* keeps its name.
NewName(mapping, c) == IF c \in DOMAIN mapping THEN mapping[c] ELSE c

Rename(df, mapping) ==
    LET newcols == {NewName(mapping, c) : c \in df.cols}
    IN  [cols |-> newcols,
         rows |-> [i \in 1..Len(df.rows) |->
                     [k \in newcols |->
                        df.rows[i][CHOOSE c \in df.cols : NewName(mapping, c) = k]]]]

\* '_con_' in s.lower(), for the directory names and the archive member
\* names of the model
HasMarker(s) ==
    s \in {"vlmo_cia_aberta_con_2023.csv", "vlmo_cia_aberta_con_2024.csv",
           "VLMO_CIA_ABERTA_CON_2024.csv", "/tmp/tmpq_con_7x"}

\* temp_dir / f: the path of the archive member f extracted to temp_dir
CsvPath(temp_dir, member) ==
    [dir |-> temp_dir, name |-> member.name, readable |-> member.readable,
     df |-> member.df]

\* [temp_dir / f for f in zip_ref.namelist() if f.endswith('.csv')]
CsvPaths(temp_dir, members) ==
    [i \in 1..Len(members) |-> CsvPath(temp_dir, members[i])]

\* '_con_' in str(csv_path).lower(): the marker is looked for in the whole
\* path; it has no separator in it, so it is found when the directory or
\* the member name holds it
IsConsolidatedPath(csv_path) == HasMarker(csv_path.dir) \/ HasMarker(csv_path.name)

\* the body of the per-file try block: tag the frame, rename its columns
NormalizeFile(file) ==
    IF IsConsolidatedPath(file)
    THEN Rename(WithColumn(file.df, "File_Type", "Consolidated"), ConsolidatedMapping)
    ELSE Rename(WithColumn(file.df, "File_Type", "Individual"), IndividualMapping)

RECURSIVE FamilyFrames(_, _)
\* consolidated_data / individual_data after the loop over csv_files: the
\* normalized frames of the files of one family, in list order; a file that
\* pd.read_csv cannot read is logged and skipped.
FamilyFrames(csv_files, consolidated) ==
    IF csv_files = << >> THEN << >>
    ELSE LET f == Head(csv_files)
         IN  (IF f.readable /\ IsConsolidatedPath(f) = consolidated
              THEN << NormalizeFile(f) >> ELSE << >>)
             \o FamilyFrames(Tail(csv_files), consolidated)

\* process_trading_data(csv_files): [raised, consolidated, individual]
ProcessTradingData(csv_files) ==
    LET consolidated_data == FamilyFrames(csv_files, TRUE)
        individual_data == FamilyFrames(csv_files, FALSE)
        con == IF consolidated_data # << >>
               THEN Consolidate(consolidated_data, "Movement_Date", ConsolidatedKeyFields)
               ELSE [raised |-> FALSE, df |-> EmptyFrame]
        ind == IF individual_data # << >>
               THEN Consolidate(individual_data, "Delivery_Date", IndividualKeyFields)
               ELSE [raised |-> FALSE, df |-> EmptyFrame]
    IN  IF con.raised \/ ind.raised
        THEN [raised |-> TRUE, consolidated |-> EmptyFrame, individual |-> EmptyFrame]
        ELSE [raised |-> FALSE, consolidated |-> con.df, individual |-> ind.df]

\* ------------------------------------------------------------ run history
\* reports/run_history.json: kind is "missing" (no file), "corrupt" (not
\* JSON) or "json"; has_last_run tells whether the object has a 'last_run'
\* entry, records_kind whether its total_records is a number ("int") or the
\* per-family object of earlier releases ("dict", total_records then being
\* its 'consolidated' entry).
History(kind, has_last_run, records_kind, total, unique) ==
    [kind |-> kind, has_last_run |-> has_last_run, records_kind |-> records_kind,
     total_records |-> total, unique_companies |-> unique]

MissingHistory == History("missing", FALSE, "int", 0, 0)

CorruptHistory == History("corrupt", FALSE, "int", 0, 0)

\* {} as written by _save_run_history({})
EmptyHistory == History("json", FALSE, "int", 0, 0)

\* ReportGenerator.__init__: the history file is created when it is absent
InitHistoryFile(h) == IF h.kind = "missing" THEN EmptyHistory ELSE h

\* _load_run_history raises unless the file is JSON (only FileNotFoundError
\* is caught)
LoadRaises(h) == h.kind = "corrupt"

\* last_run.get('total_records', 0), then .get('consolidated', 0) of a dict
LastRunRecords(h) == IF h.kind = "json" /\ h.has_last_run THEN h.total_records ELSE 0

\* consolidated_data['Company_CNPJ'].nunique(): distinct cells, missing
\* ones not counted
NUnique(df, c) ==
    Cardinality({df.rows[i][c] : i \in 1..Len(df.rows)} \ {NaN, NaT})

\* faulty variant: a negative difference is reported as zero
NewRecordsClamped(total_records, last_run_records) ==
    IF total_records >= last_run_records THEN total_records - last_run_records ELSE 0

\* new_records = total_records - last_run_records
NewRecords(total_records, last_run_records) == total_records - last_run_records

\* faulty variant: the history is saved without the new last_run entry
StaleHistory(history, total_records, unique_companies) == history

\* history['last_run'] = {...}; self._save_run_history(history): the file
\* after the update (the timestamp is left out)
UpdatedHistory(history, total_records, unique_companies) ==
    History("json", TRUE, "int", total_records, unique_companies)

NoReport == [made |-> FALSE, total_records |-> 0, new_records |-> 0, unique_companies |-> 0]

\* generate_report(consolidated_data, _): [raised, report, history].
\* It raises before the history is touched when the table has no
\* Reference_Date column (KeyError) or no row (strftime of NaT), when the
\* history file is not JSON, and when the statistics index a column that
\* is absent.  The second parameter, to which main passes individual_data,
\* is named _ in the source and never read.
GenerateReport(consolidated_data, individual_data, history_file) ==
    LET h == InitHistoryFile(history_file)
        total_records == Len(consolidated_data.rows)
        unique_companies == NUnique(consolidated_data, "Company_CNPJ")
        new_records == NewRecords(total_records, LastRunRecords(h))
    IN  IF \/ ~({"Reference_Date", "Company_CNPJ", "Company_Name"} \subseteq consolidated_data.cols)
           \/ consolidated_data.rows = << >>
           \/ LoadRaises(h)
           \/ ~({"Movement_Type", "Volume", "Company_Name"} \subseteq consolidated_data.cols)
        THEN [raised |-> TRUE, report |-> NoReport, history |-> h]
        ELSE [raised |-> FALSE,
              report |-> [made |-> TRUE, total_records |-> total_records,
                          new_records |-> new_records,
                          unique_companies |-> unique_companies],
              history |-> UpdatedHistory(h, total_records, unique_companies)]

\* ----------------------------------------------------------------- input
\* one row of a consolidated ("_con_") CSV file, as pd.read_csv returns it
ConRow(date, cnpj, version, mdate, mtype, quantity) ==
    [CNPJ_Companhia |-> cnpj, Nome_Companhia |-> "ACME", Data_Referencia |-> date,
     Versao |-> version, Tipo_Movimentacao |-> mtype, Data_Movimentacao |-> mdate,
     Quantidade |-> quantity, Volume |-> "10"]

\* one row of an individual CSV file
IndRow(date, cnpj, version, cvm, ddate, protocol) ==
    [CNPJ_Companhia |-> cnpj, Nome_Companhia |-> "ACME", Data_Referencia |-> date,
     Versao |-> version, Codigo_CVM |-> cvm, Categoria |-> "Categoria A",
     Tipo |-> "Tipo X", Data_Entrega |-> ddate, Protocolo_Entrega |-> protocol]

ConCols == DOMAIN ConRow("", "", "", "", "", "")

IndCols == DOMAIN IndRow("", "", "", "", "", "")

\* all sequences over S of length at most n
SeqsUpTo(S, n) == UNION {[1..k -> S] : k \in 0..n}

ConFile(name, rows) == [name |-> name, readable |-> TRUE, df |-> [cols |-> ConCols, rows |-> rows]]

IndFile(name, rows) == [name |-> name, readable |-> TRUE, df |-> [cols |-> IndCols, rows |-> rows]]

\* a row of a consolidated file that also has a column the translation
\* table does not name and a File_Type column of its own
WithExtraColumns(row, note, file_type) ==
    row @@ ("Observacao" :> note) @@ ("File_Type" :> file_type)

ExtraConCols == ConCols \cup {"Observacao", "File_Type"}

ExtraConFile(name, rows) ==
    [name |-> name, readable |-> TRUE, df |-> [cols |-> ExtraConCols, rows |-> rows]]

\* a file that pd.read_csv rejects (a malformed row, an empty file); df
\* holds the well-formed rows that precede the malformed one in the file
UnreadableFile(name) ==
    [name |-> name, readable |-> FALSE,
     df |-> [cols |-> IndCols,
             rows |-> << IndRow("2024-02-01", "T1", "1", "200", "2024-02-15", "P1") >>]]

\* get_available_files(base_url)
ZipFiles == {"a.zip", "b.zip"}

\* the names of the two CSV files an archive of the site can hold
ConName(z) == IF z = "a.zip" THEN "vlmo_cia_aberta_con_2023.csv" ELSE "vlmo_cia_aberta_con_2024.csv"

IndName(z) == IF z = "a.zip" THEN "vlmo_cia_aberta_2023.csv" ELSE "vlmo_cia_aberta_2024.csv"

\* rows of the files of the consolidation specification
RichConRows ==
    {ConRow(k[1], k[2], v, "2024-01-15", "Compra", q) :
        k \in {<< "2024-01-01", "T1" >>, << "2024-01-01", "T2" >>, << "2024-02-01", "T1" >>},
        v \in {"1", "2", "N/A"}, q \in {"100", NaN}}
      \cup {ConRow("2024-01-01", "T1", "2", "2024-01-15", NaN, "100"),
            ConRow("2024-02-01", "T1", "1", NaN, "Compra", "100")}

RichIndRows ==
    {IndRow(d, "T1", v, "100", p[1], p[2]) :
        d \in {"2024-01-01", "2024-02-01"}, v \in {"1", "2", "N/A"},
        p \in {<< "2024-01-15", "P1" >>, << NaN, NaN >>}}
      \cup {IndRow("2024-01-01", "T1", "2", NaN, "2024-01-15", "P1")}

ExtraConRows ==
    {WithExtraColumns(ConRow("2024-01-01", "T1", "1", "2024-01-15", "Compra", "100"),
                      "nota", "Individual"),
     WithExtraColumns(ConRow("2024-02-01", "T1", "2", "2024-02-15", "Venda", "100"),
                      NaN, "Individual")}

\* rows of the files of the pipeline specification
ConRows ==
    {ConRow("2024-01-01", "T1", "1", "2024-01-15", "Compra", "100"),
     ConRow("2024-01-01", "T1", "1", "2024-01-15", "Compra", "150"),
     ConRow("2024-02-01", "T1", "2", "2024-02-15", "Venda", "100"),
     ConRow("2024-01-01", "T2", "1", "2024-01-15", "Compra", "100"),
     ConRow("2024-02-01", "T2", "N/A", "2024-02-15", NaN, "100"),
     ConRow("31/02/2024", "T1", "1", "2024-01-15", "Compra", "100")}

IndRows ==
    {IndRow("2024-01-01", "T1", "1", "100", "2024-01-15", "P1"),
     IndRow("2024-02-01", "T2", "N/A", NaN, "2024-02-15", NaN),
     IndRow("2024-01-01", "T1", "2", "100", "sem data", "P1")}

CsvFiles(z, n) ==
    {ConFile(ConName(z), rows) : rows \in SeqsUpTo(ConRows, n)}
      \cup {IndFile(IndName(z), rows) : rows \in SeqsUpTo(IndRows, n)}
      \cup {UnreadableFile(IndName(z))}

\* what download_and_extract_zip does for one archive: it raises, or it
\* returns the CSV files of the archive
FailedZip == [ok |-> FALSE, csv_files |-> << >>]

\* an archive that is fetched and has no member whose name ends in ".csv"
NoCsvZip == [ok |-> TRUE, csv_files |-> << >>]

Zips(z, n) ==
    {FailedZip, NoCsvZip} \cup {[ok |-> TRUE, csv_files |-> << f >>] : f \in CsvFiles(z, n)}

\* the archives the site can hold
Sites ==
    {s \in [ZipFiles -> UNION {Zips(z, MaxFileRows) : z \in ZipFiles}] :
        \A z \in ZipFiles : s[z] \in Zips(z, MaxFileRows)}

\* directories tempfile.mkdtemp() can return: "tmp" and eight characters
\* of a-z, 0-9 and "_" under the directory for temporary files
PlainTempDir == "/tmp/tmpk3v9xq2a"

TempDirs == {PlainTempDir, "/tmp/tmpq_con_7x"}

\* the history file an earlier execution may have left
Histories ==
    {MissingHistory, CorruptHistory, EmptyHistory}
      \cup {History("json", TRUE, k, n, IF n = 0 THEN 0 ELSE 1) :
              k \in {"int", "dict"}, n \in 0..MaxPrev}

\* ----------------------------------------------------------------- state
VARIABLES
    zips,               \* the archives on the site: zip name -> its download
    temp_dir,           \* the directory tempfile.mkdtemp() made for this execution
    pc,                 \* where main() is
    pending,            \* futures of future_to_zip that have not completed
    all_csv_files,      \* main's list of extracted CSV files
    consolidated_data,  \* the tables process_trading_data returned
    individual_data,
    datasets,           \* the families whose CSV is in datasets/
    history_file,       \* reports/run_history.json
    report,             \* report_data of this execution
    written,            \* what this execution has written so far
    runs,               \* executions started
    previous            \* how the execution before this one ended

vars == << zips, temp_dir, pc, pending, all_csv_files, consolidated_data, individual_data,
           datasets, history_file, report, written, runs, previous >>

Init ==
    /\ zips \in Sites
    /\ temp_dir \in TempDirs
    /\ pc = "download"
    /\ pending = ZipFiles
    /\ all_csv_files = << >>
    /\ consolidated_data = EmptyFrame
    /\ individual_data = EmptyFrame
    /\ datasets = {}
    /\ history_file \in Histories
    /\ report = NoReport
    /\ written = {}
    /\ runs = 1
    /\ previous = "none"

\* faulty variant: the exception of a download leaves the loop and main
DownloadCompletedOrAbort(z) ==
    /\ pc = "download"
    /\ z \in pending
    /\ pending' = pending \ {z}
    /\ all_csv_files' = IF zips[z].ok THEN all_csv_files \o CsvPaths(temp_dir, zips[z].csv_files)
                        ELSE all_csv_files
    /\ pc' = IF zips[z].ok THEN pc ELSE "failed"
    /\ UNCHANGED << zips, temp_dir, consolidated_data, individual_data, datasets,
                    history_file, report, written, runs, previous >>

\* One iteration of "for future in as_completed(future_to_zip)": any
\* pending download may be the next to complete; its CSV files are appended,
\* or its exception is logged and the loop goes on.
DownloadCompleted(z) ==
    /\ pc = "download"
    /\ z \in pending
    /\ pending' = pending \ {z}
    /\ all_csv_files' = IF zips[z].ok THEN all_csv_files \o CsvPaths(temp_dir, zips[z].csv_files)
                        ELSE all_csv_files
    /\ UNCHANGED << zips, temp_dir, pc, consolidated_data, individual_data, datasets,
                    history_file, report, written, runs, previous >>

\* faulty variant: process_trading_data is called without the test of
\* all_csv_files
ProcessUnguarded ==
    /\ pc = "download"
    /\ pending = {}
    /\ LET r == ProcessTradingData(all_csv_files)
       IN  IF r.raised
           THEN /\ pc' = "failed"
                /\ UNCHANGED << consolidated_data, individual_data >>
           ELSE /\ pc' = "save"
                /\ consolidated_data' = r.consolidated
                /\ individual_data' = r.individual
    /\ UNCHANGED << zips, temp_dir, pending, all_csv_files, datasets, history_file,
                    report, written, runs, previous >>

\* "if not all_csv_files: raise", then the call of process_trading_data
Process ==
    /\ pc = "download"
    /\ pending = {}
    /\ LET r == ProcessTradingData(all_csv_files)
       IN  IF all_csv_files = << >> \/ r.raised
           THEN /\ pc' = "failed"
                /\ UNCHANGED << consolidated_data, individual_data >>
           ELSE /\ pc' = "save"
                /\ consolidated_data' = r.consolidated
                /\ individual_data' = r.individual
    /\ UNCHANGED << zips, temp_dir, pending, all_csv_files, datasets, history_file,
                    report, written, runs, previous >>

\* "if not consolidated_data.empty: to_csv", the same for individual_data
SaveDatasets ==
    /\ pc = "save"
    /\ LET saved == (IF consolidated_data.rows # << >> THEN {"Consolidated"} ELSE {})
                      \cup (IF individual_data.rows # << >> THEN {"Individual"} ELSE {})
       IN  /\ datasets' = datasets \cup saved
           /\ written' = written \cup saved
    /\ pc' = "report"
    /\ UNCHANGED << zips, temp_dir, pending, all_csv_files, consolidated_data,
                    individual_data, history_file, report, runs, previous >>

\* ReportGenerator() and generate_report(consolidated_data, individual_data)
\* up to and including self._save_run_history(history)
Report ==
    /\ pc = "report"
    /\ LET r == GenerateReport(consolidated_data, individual_data, history_file)
       IN  /\ history_file' = r.history
           /\ report' = r.report
           /\ IF r.raised
              THEN /\ pc' = "failed"
                   /\ UNCHANGED written
              ELSE /\ pc' = "html"
                   /\ written' = written \cup {"snapshot"}
    /\ UNCHANGED << zips, temp_dir, pending, all_csv_files, consolidated_data,
                    individual_data, datasets, runs, previous >>

\* self._generate_html_report(report_data), the last statement of
\* generate_report: latest_report.html is written and copied to
\* reports/history/.  open() and shutil.copy2 raise OSError when the file
\* system refuses the write; the exception leaves generate_report and main.
HtmlReport ==
    /\ pc = "html"
    /\ \E html_written \in BOOLEAN : pc' = IF html_written THEN "print" ELSE "failed"
    /\ UNCHANGED << zips, temp_dir, pending, all_csv_files, consolidated_data,
                    individual_data, datasets, history_file, report, written, runs, previous >>

\* print_report(report), the clean-up of temp_dir and the final messages.
\* "for file in temp_dir.glob('*'): file.unlink()" raises when an entry of
\* temp_dir is a directory (an archive member in a folder) or cannot be
\* removed, and temp_dir.rmdir() raises when the directory is not empty.
Finish ==
    /\ pc = "print"
    /\ \E cleaned_up \in BOOLEAN : pc' = IF cleaned_up THEN "done" ELSE "failed"
    /\ UNCHANGED << zips, temp_dir, pending, all_csv_files, consolidated_data,
                    individual_data, datasets, history_file, report, written, runs, previous >>

\* the program is started again on the same site content
NextRun ==
    /\ pc \in {"done", "failed"}
    /\ runs < MaxRuns
    /\ runs' = runs + 1
    /\ previous' = pc
    /\ pc' = "download"
    /\ pending' = DOMAIN zips
    /\ all_csv_files' = << >>
    /\ consolidated_data' = EmptyFrame
    /\ individual_data' = EmptyFrame
    /\ report' = NoReport
    /\ written' = {}
    /\ UNCHANGED << zips, datasets, history_file >>
    /\ temp_dir' \in TempDirs

Next ==
    \/ \E z \in DOMAIN zips : DownloadCompleted(z)
    \/ Process
    \/ SaveDatasets
    \/ Report
    \/ HtmlReport
    \/ Finish
    \/ NextRun

Spec == Init /\ [][Next]_vars

\* The consolidation step on its own: one archive with one CSV file of
\* either family has been downloaded, and process_trading_data is called.
ConsInitWith(f) ==
    /\ zips = [z \in {"a.zip"} |-> [ok |-> TRUE, csv_files |-> << f >>]]
    /\ temp_dir = PlainTempDir
    /\ all_csv_files = << CsvPath(PlainTempDir, f) >>
    /\ pc = "download"
    /\ pending = {}
    /\ consolidated_data = EmptyFrame
    /\ individual_data = EmptyFrame
    /\ datasets = {}
    /\ history_file = MissingHistory
    /\ report = NoReport
    /\ written = {}
    /\ runs = 1
    /\ previous = "none"

ConsInit ==
    \E n \in 0..MaxRows :
        \/ \E rows \in [1..n -> RichConRows] :
              ConsInitWith(ConFile("VLMO_CIA_ABERTA_CON_2024.csv", rows))
        \/ \E rows \in [1..n -> RichIndRows] :
              ConsInitWith(IndFile("vlmo_cia_aberta_2024.csv", rows))
        \/ \E rows \in [1..n -> ExtraConRows] :
              ConsInitWith(ExtraConFile("VLMO_CIA_ABERTA_CON_2024.csv", rows))

ConsNext == Process

ConsSpec == ConsInit /\ [][ConsNext]_vars

\* ------------------------------------------------------------ properties
\* The records of one family as the consolidation step sees them before it
\* sorts and groups: the files' rows in list order, dates and Version parsed.
ParsedInput(consolidated) ==
    LET c == Concat(FamilyFrames(all_csv_files, consolidated))
        secondary_date == IF consolidated THEN "Movement_Date" ELSE "Delivery_Date"
    IN  ToNumericColumn(ToDatetimeColumn(ToDatetimeColumn(c, "Reference_Date"),
                                         secondary_date), "Version").rows

KeyFields(consolidated) == IF consolidated THEN ConsolidatedKeyFields ELSE IndividualKeyFields

Table(consolidated) == IF consolidated THEN consolidated_data ELSE individual_data

NoDuplicateKeys(df, key_fields) ==
    \A i, j \in 1..Len(df.rows) :
        i # j => KeyOf(df.rows[i], key_fields) # KeyOf(df.rows[j], key_fields)

\* C1: the table of each family holds at most one record per identity key.
C1_UniqueKeys ==
    /\ NoDuplicateKeys(consolidated_data, ConsolidatedKeyFields)
    /\ NoDuplicateKeys(individual_data, IndividualKeyFields)

\* several input records shared a key and were collapsed, and the table
\* still holds several keys
C1_Witness ==
    /\ pc = "save"
    /\ Len(consolidated_data.rows) >= 2
    /\ \E i, j \in 1..Len(ParsedInput(TRUE)) :
          /\ i # j
          /\ ~HasNullKey(ParsedInput(TRUE)[i], ConsolidatedKeyFields)
          /\ KeyOf(ParsedInput(TRUE)[i], ConsolidatedKeyFields)
               = KeyOf(ParsedInput(TRUE)[j], ConsolidatedKeyFields)

\* C2: in each family, every key group that has a numeric Version appears
\* in the table with the largest numeric Version of the group, whatever
\* records with a missing or non-numeric Version the group also has.
C2_MaxVersion ==
    pc = "save" =>
        \A fam \in BOOLEAN :
            LET in == ParsedInput(fam)
                out == Table(fam).rows
                kf == KeyFields(fam)
            IN  /\ \A i \in 1..Len(in) :
                       (~HasNullKey(in[i], kf) /\ ~IsNull(in[i]["Version"])) =>
                           \E o \in 1..Len(out) :
                               /\ KeyOf(out[o], kf) = KeyOf(in[i], kf)
                               /\ ~IsNull(out[o]["Version"])
                               /\ NumVal(out[o]["Version"]) >= NumVal(in[i]["Version"])
                /\ \A o \in 1..Len(out) :
                       ~IsNull(out[o]["Version"]) =>
                           \E i \in 1..Len(in) :
                               /\ KeyOf(in[i], kf) = KeyOf(out[o], kf)
                               /\ in[i]["Version"] = out[o]["Version"]

\* a record without a numeric Version precedes, in the file, a record of
\* the same key that has one
C2_Witness ==
    /\ pc = "save"
    /\ \E i, j \in 1..Len(ParsedInput(TRUE)) :
          /\ i < j
          /\ ~HasNullKey(ParsedInput(TRUE)[i], ConsolidatedKeyFields)
          /\ KeyOf(ParsedInput(TRUE)[i], ConsolidatedKeyFields)
               = KeyOf(ParsedInput(TRUE)[j], ConsolidatedKeyFields)
          /\ IsNull(ParsedInput(TRUE)[i]["Version"])
          /\ ~IsNull(ParsedInput(TRUE)[j]["Version"])
    /\ Len(consolidated_data.rows) >= 1

\* record i of the input has the largest Version of its key group
HasMaxVersion(in, i, kf) ==
    \A j \in 1..Len(in) :
        KeyOf(in[j], kf) = KeyOf(in[i], kf) =>
            \/ IsNull(in[j]["Version"])
            \/ ~IsNull(in[i]["Version"]) /\ NumVal(in[j]["Version"]) <= NumVal(in[i]["Version"])

\* C3: every record of the table is, field for field, one input record of
\* its key group that has the largest Version.
C3_SingleSourceRecord ==
    pc = "save" =>
        \A fam \in BOOLEAN :
            \A o \in 1..Len(Table(fam).rows) :
                \E i \in 1..Len(ParsedInput(fam)) :
                    /\ ParsedInput(fam)[i] = Table(fam).rows[o]
                    /\ HasMaxVersion(ParsedInput(fam), i, KeyFields(fam))

SortedByReferenceDate(df) ==
    \A i \in 1..(Len(df.rows) - 1) :
        Ord(df.rows[i]["Reference_Date"]) <= Ord(df.rows[i + 1]["Reference_Date"])

\* C5: the table of each family is ordered by Reference_Date, non-decreasing.
C5_SortedByDate ==
    /\ SortedByReferenceDate(consolidated_data)
    /\ SortedByReferenceDate(individual_data)

\* the file lists a later Reference_Date before an earlier one, and both
\* dates are in the table
C5_Witness ==
    /\ pc = "save"
    /\ Len(individual_data.rows) >= 2
    /\ individual_data.rows[1]["Reference_Date"] # individual_data.rows[2]["Reference_Date"]
    /\ Ord(ParsedInput(FALSE)[1]["Reference_Date"]) > Ord(ParsedInput(FALSE)[2]["Reference_Date"])

\* C6: consolidating a table that came out of the consolidation step gives
\* the same table: same records, same cells, same order.
C6_Idempotent ==
    pc = "save" =>
        /\ consolidated_data.cols # {} =>
              Consolidate(<< consolidated_data >>, "Movement_Date", ConsolidatedKeyFields)
                = [raised |-> FALSE, df |-> consolidated_data]
        /\ individual_data.cols # {} =>
              Consolidate(<< individual_data >>, "Delivery_Date", IndividualKeyFields)
                = [raised |-> FALSE, df |-> individual_data]

\* a table of several records, with a numeric Version and with cells that
\* stayed missing, that consolidation had to reorder and collapse
C6_Witness ==
    /\ pc = "save"
    /\ Len(individual_data.rows) >= 2
    /\ \E i, j \in 1..Len(ParsedInput(FALSE)) :
          /\ i # j
          /\ ~HasNullKey(ParsedInput(FALSE)[i], IndividualKeyFields)
          /\ KeyOf(ParsedInput(FALSE)[i], IndividualKeyFields)
               = KeyOf(ParsedInput(FALSE)[j], IndividualKeyFields)
    /\ \E i \in 1..Len(individual_data.rows) : ~IsNull(individual_data.rows[i]["Version"])
    /\ \E i \in 1..Len(individual_data.rows) : IsNull(individual_data.rows[i]["Delivery_Date"])
    /\ ParsedInput(FALSE)[1]["Reference_Date"] = "2024-02-01 00:00:00"

\* every order in which the downloads can complete
CompletionOrders ==
    {o \in [1..Cardinality(DOMAIN zips) -> DOMAIN zips] :
        \A i, j \in DOMAIN o : i # j => o[i] # o[j]}

RECURSIVE FilesInOrder(_)
\* all_csv_files when the downloads complete in the order o
FilesInOrder(o) ==
    IF o = << >> THEN << >>
    ELSE (IF zips[Head(o)].ok THEN CsvPaths(temp_dir, zips[Head(o)].csv_files) ELSE << >>)
         \o FilesInOrder(Tail(o))

\* C4: for the same archives, the tables are the same (records, cells and
\* order) whatever the order in which the downloads completed.
C4_OrderIndependent ==
    pc = "save" =>
        \A o \in CompletionOrders :
            /\ ProcessTradingData(FilesInOrder(o)).consolidated = consolidated_data
            /\ ProcessTradingData(FilesInOrder(o)).individual = individual_data

\* total_records of the persisted last_run entry, zero when there is none
PersistedTotal(h) == IF h.kind = "json" /\ h.has_last_run THEN h.total_records ELSE 0

\* C7: a run that gets through the delta tracker reports new_records =
\* current record count - persisted total_records, negative values
\* included, and leaves last_run.total_records = current record count and
\* last_run.unique_companies = number of distinct Company_CNPJ values.
C7_Delta ==
    [][(pc = "report" /\ pc' = "html") =>
          LET rows == consolidated_data.rows
          IN  /\ report'.made
              /\ report'.total_records = Len(rows)
              /\ report'.new_records = Len(rows) - PersistedTotal(history_file)
              /\ history_file'.kind = "json"
              /\ history_file'.has_last_run
              /\ history_file'.total_records = Len(rows)
              /\ history_file'.unique_companies
                   = Cardinality({rows[i]["Company_CNPJ"] : i \in 1..Len(rows)})]_vars

\* a run that found fewer records than the snapshot counted, with two
\* records of one company
C7_Witness ==
    /\ pc = "html"
    /\ report.made
    /\ report.new_records < 0
    /\ history_file.total_records = 2
    /\ history_file.unique_companies = 1

\* C8: the run that follows a successful run on the same input reports
\* new_records = 0.
C8_SecondRunZero ==
    (report.made /\ previous = "done") => report.new_records = 0

\* the second of two successful runs, the first of which started from a
\* snapshot with another count
C8_Witness ==
    /\ report.made
    /\ previous = "done"
    /\ runs = 2
    /\ report.total_records = 2

\* C9: a missing or corrupt history file, or one without last_run, is not
\* fatal: the tracker takes the previous count as zero, the run goes on
\* and the new snapshot is written.
C9_SnapshotFaultNotFatal ==
    [][(/\ pc = "report"
        /\ consolidated_data.rows # << >>
        /\ \/ history_file.kind \in {"missing", "corrupt"}
           \/ ~history_file.has_last_run) =>
          /\ pc' = "html"
          /\ report'.new_records = Len(consolidated_data.rows)
          /\ "snapshot" \in written'
          /\ history_file'.total_records = Len(consolidated_data.rows)]_vars

\* cells of the model's files that pd.to_datetime rejects
BadDates == {"31/02/2024", "sem data"}

\* a file that was read holds a Reference_Date or a secondary date of its
\* family that cannot be parsed
BadDateAccepted ==
    \E n \in 1..Len(all_csv_files) :
        LET f == all_csv_files[n]
            date_cols == IF IsConsolidatedPath(f)
                         THEN {"Data_Referencia", "Data_Movimentacao"}
                         ELSE {"Data_Referencia", "Data_Entrega"}
        IN  /\ f.readable
            /\ \E i \in 1..Len(f.df.rows) :
                  \E c \in date_cols \cap f.df.cols : f.df.rows[i][c] \in BadDates

\* C10: once a record with an unparseable date has been accepted, the run
\* never gets past process_trading_data: nothing is written by it, neither
\* a table of either family nor the snapshot.
C10_DateFaultFatal ==
    /\ [](BadDateAccepted => (pc \in {"download", "failed"} /\ written = {}))
    /\ [][BadDateAccepted => (datasets' = datasets /\ history_file' = history_file)]_vars

\* the run has failed on the bad date of one family while the other
\* family's file was sound
C10_Witness ==
    /\ pc = "failed"
    /\ BadDateAccepted
    /\ Len(all_csv_files) = 2
    /\ \E n \in 1..Len(all_csv_files) :
          /\ IsConsolidatedPath(all_csv_files[n])
          /\ all_csv_files[n].df.rows # << >>
          /\ \A i \in 1..Len(all_csv_files[n].df.rows) :
                all_csv_files[n].df.rows[i]["Data_Referencia"] \notin BadDates
    /\ datasets = {}

\* C11: a run that ends in an error, at whatever step, has not overwritten
\* the snapshot: the last_run entry is still the one the run found.
C11_FailedRunKeepsSnapshot ==
    pc = "failed" => "snapshot" \notin written

\* the files of the list that pd.read_csv could read
ReadableFiles(csv_files) == SelectSeq(csv_files, LAMBDA f : f.readable)

SomeUnreadable == \E n \in 1..Len(all_csv_files) : ~all_csv_files[n].readable

\* no record of a table has the CVM code of a row of an unreadable file
NoRecordOfUnreadable ==
    \A n \in 1..Len(all_csv_files) :
        ~all_csv_files[n].readable =>
            \A i \in 1..Len(all_csv_files[n].df.rows) :
                \A o \in 1..Len(individual_data.rows) :
                    individual_data.rows[o]["CVM_Code"]
                        # all_csv_files[n].df.rows[i]["Codigo_CVM"]

\* a file could not be read and the tables are those of the other files
C12_OthersUnaffected ==
    (pc = "save" /\ SomeUnreadable) =>
        /\ NoRecordOfUnreadable
        /\ consolidated_data = ProcessTradingData(ReadableFiles(all_csv_files)).consolidated
        /\ individual_data = ProcessTradingData(ReadableFiles(all_csv_files)).individual

\* C12: when a file cannot be read, it adds no record to a table, the
\* tables are those the other files give without it, and, no date being
\* unparseable, the history file being JSON and temp_dir being free of the
\* family marker, the run is not ended by process_trading_data, by the
\* saving of the tables or by the delta tracker, which writes the snapshot.
C12_UnreadableFileIsolated ==
    /\ [](C12_OthersUnaffected)
    /\ [][(/\ SomeUnreadable
           /\ ~BadDateAccepted
           /\ ~HasMarker(temp_dir)
           /\ history_file.kind # "corrupt"
           /\ \/ pc = "download" /\ pending = {}
              \/ pc \in {"save", "report"}) =>
             /\ pc' # "failed"
             /\ pc = "report" => "snapshot" \in written']_vars

\* the archives whose download has completed without an exception
Fetched == {z \in DOMAIN zips \ pending : zips[z].ok}

\* all_csv_files holds the CSV files of the fetched archives, each once,
\* and nothing else
HoldsFilesOfFetched ==
    /\ SeqToSet(all_csv_files) = UNION {SeqToSet(CsvPaths(temp_dir, zips[z].csv_files)) : z \in Fetched}
    /\ \A i, j \in 1..Len(all_csv_files) : i # j => all_csv_files[i] # all_csv_files[j]

\* C13: a download that fails neither ends the run nor stops the other
\* downloads; each pending download still completes, all_csv_files holds
\* the files of every archive fetched so far, and when no download is
\* pending and a file was obtained, the run ends there only if
\* process_trading_data, called with all of these files, raises.
C13_FetchIsolated ==
    /\ [](pc = "download" => HoldsFilesOfFetched)
    /\ [][(pc = "download" /\ pending # {}) =>
             (pc' = "download" /\ \E z \in pending : pending' = pending \ {z})]_vars
    /\ [][(pc = "download" /\ pending = {} /\ all_csv_files # << >>) =>
             /\ HoldsFilesOfFetched
             /\ (pc' = "failed") = ProcessTradingData(all_csv_files).raised
             /\ pc' \in {"failed", "save"}]_vars

\* the download of one archive failed, the file of the other archive was
\* consolidated
C13_Witness ==
    /\ pc = "save"
    /\ \E z \in DOMAIN zips : ~zips[z].ok
    /\ Len(all_csv_files) = 1
    /\ Len(consolidated_data.rows) >= 1

\* C14: when the downloads are over and no CSV file was obtained, the run
\* ends in an error at once, with no table saved and the history file as
\* it was; when a file was obtained, process_trading_data is called and
\* the run goes on unless that call raises.
C14_NoSourceFatal ==
    /\ [][(pc = "download" /\ pending = {} /\ all_csv_files = << >>) =>
             /\ pc' = "failed"
             /\ written' = {}
             /\ datasets' = datasets
             /\ history_file' = history_file]_vars
    /\ [][(pc = "download" /\ pending = {} /\ all_csv_files # << >>) =>
             pc' = IF ProcessTradingData(all_csv_files).raised THEN "failed" ELSE "save"]_vars
    /\ []((pc = "failed" /\ all_csv_files = << >>) => written = {})

\* a second run has failed for want of a CSV file (one archive failed, the
\* other held no CSV file) and the history file is the one found
C14_Witness ==
    /\ pc = "failed"
    /\ runs = 2
    /\ all_csv_files = << >>
    /\ pending = {}
    /\ \E z \in DOMAIN zips : ~zips[z].ok
    /\ \E z \in DOMAIN zips : zips[z] = NoCsvZip
    /\ history_file.kind = "missing"
    /\ datasets = {}

\* the files that were read hold no record of the family
NoRecordOf(consolidated) ==
    \A n \in 1..Len(FamilyFrames(all_csv_files, consolidated)) :
        FamilyFrames(all_csv_files, consolidated)[n].rows = << >>

\* C15: a family without any record in the files that were read gets an
\* empty table and process_trading_data does not raise on its account;
\* the delta tracker then reports and persists the counts of the run, a
\* total of 0 for an empty Consolidated table, and does not end the run
\* (the files being classified by their names: temp_dir has no marker).
C15_EmptyFamilyNotAnError ==
    /\ [][(/\ pc = "download" /\ pending = {} /\ all_csv_files # << >>
           /\ ~BadDateAccepted
           /\ ~HasMarker(temp_dir)
           /\ \E fam \in BOOLEAN : NoRecordOf(fam)) =>
             /\ pc' = "save"
             /\ \A fam \in BOOLEAN : NoRecordOf(fam) => Table(fam)'.rows = << >>]_vars
    /\ [][(/\ pc = "report"
           /\ history_file.kind # "corrupt"
           /\ ~HasMarker(temp_dir)
           /\ \E fam \in BOOLEAN : NoRecordOf(fam)
           /\ \A fam \in BOOLEAN : NoRecordOf(fam) \/ Table(fam).rows # << >>) =>
             /\ pc' = "html"
             /\ "snapshot" \in written'
             /\ report'.total_records = Len(consolidated_data.rows)
             /\ history_file'.has_last_run
             /\ history_file'.total_records = Len(consolidated_data.rows)]_vars

\* the canonical names of a translation table
CanonicalNames(mapping) == {mapping[k] : k \in DOMAIN mapping}

\* what the claim says of the normalized frame nf of the file f
NormalizedAsSpecified(f, nf, mapping, family) ==
    /\ nf.cols \subseteq CanonicalNames(mapping)
    /\ \A c \in f.df.cols :
          IF c \in DOMAIN mapping
          THEN /\ mapping[c] \in nf.cols
               /\ c # "File_Type" =>
                     \A i \in 1..Len(nf.rows) : nf.rows[i][mapping[c]] = f.df.rows[i][c]
          ELSE c \notin nf.cols
    /\ "File_Type" \in nf.cols
    /\ Len(nf.rows) = Len(f.df.rows)
    /\ \A i \in 1..Len(nf.rows) : nf.rows[i]["File_Type"] = family

\* C16: the frame a file is normalized to has canonical columns only:
\* each column the family's table names is there under its canonical name
\* with the cells of the file, each other column of the file is gone, and
\* File_Type is the family of the file in every row; so the tables have
\* canonical columns only.
C16_OnlyCanonicalFields ==
    pc = "save" =>
        /\ \A n \in 1..Len(all_csv_files) :
              LET f == all_csv_files[n]
              IN  f.readable =>
                    IF IsConsolidatedPath(f)
                    THEN NormalizedAsSpecified(f, NormalizeFile(f), ConsolidatedMapping, "Consolidated")
                    ELSE NormalizedAsSpecified(f, NormalizeFile(f), IndividualMapping, "Individual")
        /\ consolidated_data.cols \subseteq CanonicalNames(ConsolidatedMapping)
        /\ individual_data.cols \subseteq CanonicalNames(IndividualMapping)

\* Individual tables of zero and of one record
SomeIndividualTables ==
    {EmptyFrame,
     ProcessTradingData(<< CsvPath(PlainTempDir, IndFile("vlmo_cia_aberta_2024.csv",
        << IndRow("2024-01-01", "T1", "1", "100", "2024-01-15", "P1") >>)) >>).individual}

\* C17: when the delta tracker has run, the snapshot holds the counts per
\* family, and what the tracker reports and persists would have been
\* different had the Individual table had another number of records.
C17_PerFamilyCounts ==
    [][(pc = "report" /\ pc' = "html") =>
          /\ history_file'.records_kind = "dict"
          /\ \A t \in SomeIndividualTables :
                Len(t.rows) # Len(individual_data.rows) =>
                    GenerateReport(consolidated_data, t, history_file)
                        # GenerateReport(consolidated_data, individual_data, history_file)]_vars

\* the family the file name stands for
FamilyOfName(name) == IF HasMarker(name) THEN "Consolidated" ELSE "Individual"

\* C18: each file that was read is in the list of exactly one family, the
\* one its own name stands for ("_con_" in the name, whatever the case:
\* Consolidated, otherwise Individual), whatever the directory it was
\* extracted to, and each of its normalized records has that family as
\* File_Type.
C18_FamilyByFileName ==
    pc = "save" =>
        \A n \in 1..Len(all_csv_files) :
            LET f == all_csv_files[n]
            IN  f.readable =>
                  /\ IsConsolidatedPath(f) = (FamilyOfName(f.name) = "Consolidated")
                  /\ Len(FamilyFrames(<< f >>, TRUE)) + Len(FamilyFrames(<< f >>, FALSE)) = 1
                  /\ \A d \in TempDirs :
                        IsConsolidatedPath(CsvPath(d, f)) = IsConsolidatedPath(f)
                  /\ \A i \in 1..Len(NormalizeFile(f).rows) :
                        NormalizeFile(f).rows[i]["File_Type"] = FamilyOfName(f.name)

\* C19: every record of a file that was read has a record of its identity
\* key in the table of its family, a missing key cell counting as a value
\* of the key; so a family with an input record has a table with a record.
C19_NoDisclosureLost ==
    pc = "save" =>
        \A fam \in BOOLEAN :
            /\ \A i \in 1..Len(ParsedInput(fam)) :
                  \E o \in 1..Len(Table(fam).rows) :
                      KeyOf(Table(fam).rows[o], KeyFields(fam))
                          = KeyOf(ParsedInput(fam)[i], KeyFields(fam))
            /\ Len(ParsedInput(fam)) >= 1 => Len(Table(fam).rows) >= 1

====
